---- MODULE Spec2Model ----
(***************************************************************************)
(* Contract Lifecycle Advisory of the Lindle frontend                      *)
(* (src/Frontend/src/utils/aiAssistant.ts): generateContractReminders and  *)
(* getStatusSuggestions.                                                   *)
(*                                                                         *)
(* Representation.  A timestamp of t milliseconds is kept as the pair      *)
(* [day |-> t \div MS_PER_DAY, ms |-> t % MS_PER_DAY], because a month of  *)
(* milliseconds does not fit the 32-bit integers of the model checker.     *)
(* A string built by a template literal is kept as its pieces: the text    *)
(* before the number, the decimal digits of the number, the text after.    *)
(***************************************************************************)
EXTENDS Integers, Sequences, FiniteSets, TLC

VARIABLES returned, contracts, now, reminders, status, redFlagsCount, suggestions,
          db, aiReminders, loadingContracts, queries, route, pageContract,
          loadingContract, timeline, writes, updates,
          authLoading, user, pathname, pending, logged, tabs,
          activeTab, loading, error, loaded, ops, started

\* the state of a caller of the two utility functions
callVars == <<returned, reminders, status, redFlagsCount, suggestions>>

\* the 'contracts' collection of the store, the state of the list page
\* (aiReminders, loadingContracts, its pending reminder queries), the state
\* of the detail page (route, pageContract for its state 'contract',
\* loadingContract, timeline, and pathname, where its router is), the
\* updateDoc calls awaiting their result, the number of updates requested,
\* what useAuth returns (authLoading for its 'loading', user), the getDocs and
\* getDoc calls of the two loaders awaiting their result, the messages
\* written with console.error, and which of the two pages are open
pageVars == <<db, aiReminders, loadingContracts, queries, route, pageContract,
              loadingContract, timeline, writes, updates,
              authLoading, user, pathname, pending, logged, tabs>>

\* the state of DocumentAccessManager: activeTab, loading, error; which of
\* documents, accessRequests, pendingRequests and users a fetch has set; the
\* operations under way, each with the request it awaits; and the number of
\* operations started
accessVars == <<activeTab, loading, error, loaded, ops, started>>

vars == <<returned, contracts, now, reminders, status, redFlagsCount, suggestions,
          db, aiReminders, loadingContracts, queries, route, pageContract,
          loadingContract, timeline, writes, updates,
          authLoading, user, pathname, pending, logged, tabs,
          activeTab, loading, error, loaded, ops, started>>

----------------------------------------------------------------------------
(* Bounds of the checked inputs *)

\* longest contract list handed to generateContractReminders
MaxContracts == 2
\* largest whole-day distance between now and a createdAt before it
MaxAge == 33
\* largest whole-day distance between now and a createdAt after it (clock skew)
MaxSkew == 2
\* largest redFlagsCount handed to getStatusSuggestions
MaxRedFlags == 12
\* status updates requested on the pages in one behaviour
MaxUpdates == 2
\* operations started in DocumentAccessManager in one behaviour: its mount,
\* tab switches, access requests and decisions
MaxOps == 3

----------------------------------------------------------------------------
(* Values *)

\* 1000 * 60 * 60 * 24, the divisor of aiAssistant.ts line 13
MS_PER_DAY == 1000 * 60 * 60 * 24

\* the five case labels of both switch statements
KnownStatuses == {"draft", "negotiating", "signed in", "in progress", "completed"}

\* contract.status is a free string: the labels, and strings no case matches
Statuses == KnownStatuses \cup {"signed_in", "unknown_status"}

ContractIds == {"a", "b"}

\* Date.now() at the call
NowDay == MaxAge
\* times of day: midnight, 01:00:00.000 and 23:59:59.999
MsSamples == {0, 60 * 60 * 1000, MS_PER_DAY - 1}
Nows == [day : {NowDay}, ms : MsSamples]
Midnight == [day |-> NowDay, ms |-> 0]

\* Number -> String of a template literal `${n}`: the decimal digits of n,
\* with a leading minus sign for a negative n
Digit(d) ==
    CASE d = 0 -> "0" [] d = 1 -> "1" [] d = 2 -> "2" [] d = 3 -> "3"
      [] d = 4 -> "4" [] d = 5 -> "5" [] d = 6 -> "6" [] d = 7 -> "7"
      [] d = 8 -> "8" [] d = 9 -> "9"

RECURSIVE NumberToString(_)
NumberToString(n) ==
    IF n < 0 THEN <<"-">> \o NumberToString(-n)
    ELSE IF n < 10 THEN <<Digit(n)>>
    ELSE NumberToString(n \div 10) \o <<Digit(n % 10)>>

\* a string with no interpolated number
Text(s) == [icon |-> "", pre |-> s, num |-> <<>>, post |-> ""]

\* a string that starts with an emoji and interpolates no number
Icon(icon, s) == [icon |-> icon, pre |-> s, num |-> <<>>, post |-> ""]

\* a template literal: emoji, text, ${n}, text
Template(icon, pre, n, post) ==
    [icon |-> icon, pre |-> pre, num |-> NumberToString(n), post |-> post]

----------------------------------------------------------------------------
(* generateContractReminders *)

\* new Date(contract.createdAt).getTime(): the ISO-8601 date and time of day
\* as milliseconds since the epoch
getTime(createdAt) == [day |-> createdAt.day, ms |-> createdAt.ms]

\* daysSinceCreated with Math.ceil in place of Math.floor
daysSinceCreated_Ceil(n, createdAt) ==
    LET t == getTime(createdAt)
    IN  (n.day - t.day) - ((t.ms - n.ms) \div MS_PER_DAY)

\* Math.floor((now - getTime(createdAt)) / (1000 * 60 * 60 * 24))
daysSinceCreated(n, createdAt) ==
    LET t == getTime(createdAt)
    IN  (n.day - t.day) + ((n.ms - t.ms) \div MS_PER_DAY)

\* an assignment that replaces the whole object: reminders = {[id]: message}
Assign_Replace(rem, id, message) == (id :> message)

\* reminders[id] = message
Assign(rem, id, message) == (id :> message) @@ rem

\* CaseDraft with the threshold excluded: days > 3
CaseDraft_After3(rem, contract, days) ==
    IF days > 3
      THEN Assign(rem, contract.id,
             Template("memo", "This draft has been sitting for ", days,
                      " days. Consider reviewing and moving to negotiation."))
      ELSE rem

\* CaseDraft with a reminder in the first week only: 3 <= days <= 7
CaseDraft_FirstWeekOnly(rem, contract, days) ==
    IF days >= 3 /\ days <= 7
      THEN Assign(rem, contract.id,
             Template("memo", "This draft has been sitting for ", days,
                      " days. Consider reviewing and moving to negotiation."))
      ELSE rem

\* case 'draft' (lines 17-22)
CaseDraft(rem, contract, days) ==
    IF days >= 3
      THEN Assign(rem, contract.id,
             Template("memo", "This draft has been sitting for ", days,
                      " days. Consider reviewing and moving to negotiation."))
      ELSE rem

\* CaseNegotiating with the threshold excluded: days > 7
CaseNegotiating_After7(rem, contract, days) ==
    IF days > 7
      THEN Assign(rem, contract.id,
             Template("speech balloon", "Negotiation ongoing for ", days,
                      " days. Time to follow up with the counterparty?"))
      ELSE rem

\* CaseNegotiating that interpolates the days past the threshold, not the age
CaseNegotiating_DaysOverdue(rem, contract, days) ==
    IF days >= 7
      THEN Assign(rem, contract.id,
             Template("speech balloon", "Negotiation ongoing for ", days - 7,
                      " days. Time to follow up with the counterparty?"))
      ELSE rem

\* CaseNegotiating that stores an empty string when no reminder is due
CaseNegotiating_EmptyString(rem, contract, days) ==
    IF days >= 7
      THEN Assign(rem, contract.id,
             Template("speech balloon", "Negotiation ongoing for ", days,
                      " days. Time to follow up with the counterparty?"))
      ELSE Assign(rem, contract.id, Text(""))

\* case 'negotiating' (lines 24-29)
CaseNegotiating(rem, contract, days) ==
    IF days >= 7
      THEN Assign(rem, contract.id,
             Template("speech balloon", "Negotiation ongoing for ", days,
                      " days. Time to follow up with the counterparty?"))
      ELSE rem

\* CaseSignedIn with the lower threshold tested first
CaseSignedIn_LowerFirst(rem, contract, days) ==
    IF days >= 7
      THEN Assign(rem, contract.id,
             Template("clipboard", "Contract signed ", days,
                      " days ago. Prepare for project kickoff!"))
    ELSE IF days >= 14
      THEN Assign(rem, contract.id,
             Template("fire",
                      "Hey, there's possibility to sign this deal in this week - it's been signed for ",
                      days, " days. Time to start execution!"))
      ELSE rem

\* CaseSignedIn with the lower threshold excluded: days > 7
CaseSignedIn_After7(rem, contract, days) ==
    IF days >= 14
      THEN Assign(rem, contract.id,
             Template("fire",
                      "Hey, there's possibility to sign this deal in this week - it's been signed for ",
                      days, " days. Time to start execution!"))
    ELSE IF days > 7
      THEN Assign(rem, contract.id,
             Template("clipboard", "Contract signed ", days,
                      " days ago. Prepare for project kickoff!"))
      ELSE rem

\* case 'signed in' (lines 31-39)
CaseSignedIn(rem, contract, days) ==
    IF days >= 14
      THEN Assign(rem, contract.id,
             Template("fire",
                      "Hey, there's possibility to sign this deal in this week - it's been signed for ",
                      days, " days. Time to start execution!"))
    ELSE IF days >= 7
      THEN Assign(rem, contract.id,
             Template("clipboard", "Contract signed ", days,
                      " days ago. Prepare for project kickoff!"))
      ELSE rem

\* CaseInProgress with the upper threshold excluded: days > 30
CaseInProgress_After30(rem, contract, days) ==
    IF days > 30
      THEN Assign(rem, contract.id,
             Template("alarm clock", "This contract has been in progress for ", days,
                      " days. Check if milestones are being met."))
    ELSE IF days >= 14
      THEN Assign(rem, contract.id,
             Template("rocket", "Project running for ", days,
                      " days. Consider sending a progress update to the client."))
      ELSE rem

\* case 'in progress' (lines 41-49)
CaseInProgress(rem, contract, days) ==
    IF days >= 30
      THEN Assign(rem, contract.id,
             Template("alarm clock", "This contract has been in progress for ", days,
                      " days. Check if milestones are being met."))
    ELSE IF days >= 14
      THEN Assign(rem, contract.id,
             Template("rocket", "Project running for ", days,
                      " days. Consider sending a progress update to the client."))
      ELSE rem

\* CaseCompleted with the threshold excluded: days < 30
CaseCompleted_Under30(rem, contract, days) ==
    IF days < 30
      THEN Assign(rem, contract.id,
             Icon("check mark",
                  "Great job completing this contract! Consider asking for testimonials or referrals."))
      ELSE rem

\* CaseCompleted that ignores a negative age: 0 <= days <= 30
CaseCompleted_FromZero(rem, contract, days) ==
    IF days >= 0 /\ days <= 30
      THEN Assign(rem, contract.id,
             Icon("check mark",
                  "Great job completing this contract! Consider asking for testimonials or referrals."))
      ELSE rem

\* case 'completed' (lines 51-56)
CaseCompleted(rem, contract, days) ==
    IF days <= 30
      THEN Assign(rem, contract.id,
             Icon("check mark",
                  "Great job completing this contract! Consider asking for testimonials or referrals."))
      ELSE rem

\* a default case that stores a generic reminder
CaseDefault_Generic(rem, contract, days) ==
    Assign(rem, contract.id, Text("Review this contract."))

\* default (lines 58-59)
CaseDefault(rem, contract, days) == rem

\* the switch on contract.status, the body of one forEach iteration
SwitchStatus(rem, contract, days) ==
    CASE contract.status = "draft"       -> CaseDraft(rem, contract, days)
      [] contract.status = "negotiating" -> CaseNegotiating(rem, contract, days)
      [] contract.status = "signed in"   -> CaseSignedIn(rem, contract, days)
      [] contract.status = "in progress" -> CaseInProgress(rem, contract, days)
      [] contract.status = "completed"   -> CaseCompleted(rem, contract, days)
      [] OTHER                           -> CaseDefault(rem, contract, days)

\* the clock k milliseconds after n, for k below one day
LaterBy(n, k) ==
    IF n.ms + k < MS_PER_DAY
      THEN [day |-> n.day, ms |-> n.ms + k]
      ELSE [day |-> n.day + 1, ms |-> n.ms + k - MS_PER_DAY]

\* forEach with Date.now() read inside the callback, one millisecond later at
\* each iteration
RECURSIVE forEach_ReadsClock(_, _, _, _)
forEach_ReadsClock(cs, i, n, rem) ==
    IF i > Len(cs) THEN rem
    ELSE forEach_ReadsClock(cs, i + 1, n,
           SwitchStatus(rem, cs[i], daysSinceCreated(LaterBy(n, i), cs[i].createdAt)))

\* contracts.forEach(...), from position i on
RECURSIVE forEach(_, _, _, _)
forEach(cs, i, n, rem) ==
    IF i > Len(cs) THEN rem
    ELSE forEach(cs, i + 1, n,
                 SwitchStatus(rem, cs[i], daysSinceCreated(n, cs[i].createdAt)))

\* const reminders = {}
NoReminders == [id \in {} |-> Text("")]

generateContractReminders(cs, n) == forEach(cs, 1, n, NoReminders)

----------------------------------------------------------------------------
(* getStatusSuggestions *)

\* DraftSuggestions with the red-flag suggestion pushed last
DraftSuggestions_FlagLast(n) ==
    <<Text("Review the contract terms thoroughly before moving to negotiation")>>
    \o <<Text("Prepare your negotiation points and pushback strategies")>>
    \o (IF n > 0
          THEN <<Template("", "Address the ", n,
                          " red flag" \o (IF n > 1 THEN "s" ELSE "")
                            \o " identified in the analysis")>>
          ELSE <<>>)

\* DraftSuggestions with the plural from the first red flag on: n > 0
DraftSuggestions_PluralFrom1(n) ==
    <<Text("Review the contract terms thoroughly before moving to negotiation")>>
    \o (IF n > 0
          THEN <<Template("", "Address the ", n,
                          " red flag" \o (IF n > 0 THEN "s" ELSE "")
                            \o " identified in the analysis")>>
          ELSE <<>>)
    \o <<Text("Prepare your negotiation points and pushback strategies")>>

\* case 'draft' (lines 70-76)
DraftSuggestions(n) ==
    <<Text("Review the contract terms thoroughly before moving to negotiation")>>
    \o (IF n > 0
          THEN <<Template("", "Address the ", n,
                          " red flag" \o (IF n > 1 THEN "s" ELSE "")
                            \o " identified in the analysis")>>
          ELSE <<>>)
    \o <<Text("Prepare your negotiation points and pushback strategies")>>

\* getStatusSuggestions that adds a red-flag suggestion for every status
getStatusSuggestions_FlagsForAll(s, n) ==
    (CASE s = "draft" -> DraftSuggestions(n)
       [] s = "negotiating" ->
            << Text("Keep track of all proposed changes in writing"),
               Text("Set clear deadlines for negotiation rounds"),
               Text("Consider scheduling a call to discuss complex terms") >>
       [] s = "signed in" ->
            << Text("Confirm all parties have signed copies"),
               Text("Set up project management tools and communication channels"),
               Text("Schedule kickoff meeting with all stakeholders") >>
       [] s = "in progress" ->
            << Text("Send regular progress updates to maintain transparency"),
               Text("Track deliverables against agreed milestones"),
               Text("Document any scope changes or additional requests") >>
       [] s = "completed" ->
            << Text("Request feedback and testimonials from the client"),
               Text("Ask for referrals to similar projects"),
               Text("Archive project files and update your portfolio") >>
       [] OTHER -> <<>>)
    \o (IF s # "draft" /\ s \in KnownStatuses /\ n > 0
          THEN <<Template("", "Address the ", n, " red flags identified in the analysis")>>
          ELSE <<>>)

\* lines 66-104
getStatusSuggestions(s, n) ==
    CASE s = "draft" -> DraftSuggestions(n)
      [] s = "negotiating" ->
           << Text("Keep track of all proposed changes in writing"),
              Text("Set clear deadlines for negotiation rounds"),
              Text("Consider scheduling a call to discuss complex terms") >>
      [] s = "signed in" ->
           << Text("Confirm all parties have signed copies"),
              Text("Set up project management tools and communication channels"),
              Text("Schedule kickoff meeting with all stakeholders") >>
      [] s = "in progress" ->
           << Text("Send regular progress updates to maintain transparency"),
              Text("Track deliverables against agreed milestones"),
              Text("Document any scope changes or additional requests") >>
      [] s = "completed" ->
           << Text("Request feedback and testimonials from the client"),
              Text("Ask for referrals to similar projects"),
              Text("Archive project files and update your portfolio") >>
      [] OTHER -> <<>>

----------------------------------------------------------------------------
(* The contract pages (src/Frontend/src/app/contracts/[id]/page.tsx): the   *)
(* detail page SingleContractPage and the list page ContractsPage           *)

STATUS_OPTIONS_Underscored == <<"draft", "negotiating", "signed_in", "in_progress", "completed">>

\* the values of STATUS_OPTIONS, in order (lines 39-45 and 537-543)
STATUS_OPTIONS == <<"draft", "negotiating", "signed in", "in progress", "completed">>

\* the elements of an array
Range(arr) == {arr[k] : k \in DOMAIN arr}

\* line 47
STATUS_ORDER == <<"draft", "negotiating", "signed in", "in progress", "completed">>

QuickActionStatuses_Underscored == {"negotiating", "signed_in", "in_progress", "completed"}

\* the statuses of the four quick-action buttons (lines 299-326)
QuickActionStatuses == {"negotiating", "signed in", "in progress", "completed"}

\* STATUS_OPTIONS.find(opt => opt.value === s)?.label
Label(s) ==
    CASE s = "draft" -> "Draft"
      [] s = "negotiating" -> "Negotiating"
      [] s = "signed in" -> "Signed In"
      [] s = "in progress" -> "In Progress"
      [] s = "completed" -> "Completed"
      [] OTHER -> "undefined"

\* STATUS_ORDER.indexOf(s), counted from 1; 0 when s is not in the array
indexOf(s) ==
    IF \E k \in DOMAIN STATUS_ORDER : STATUS_ORDER[k] = s
      THEN CHOOSE k \in DOMAIN STATUS_ORDER : STATUS_ORDER[k] = s
      ELSE 0

\* an optional timestamp that is not set (updatedAt?: string)
Unset == [day |-> -1, ms |-> 0]

\* useState<Contract | null>(null)
NoContract ==
    [id |-> "", fileName |-> "", status |-> "", createdAt |-> Unset,
     updatedAt |-> Unset, userId |-> ""]

\* user.uid of the signed-in user
Uid == "u1"

\* { id: doc.id, ...doc.data() } (lines 76-79 and 570-573)
WithId(id, data) ==
    [id |-> id, fileName |-> data.fileName, status |-> data.status,
     createdAt |-> data.createdAt, updatedAt |-> data.updatedAt,
     userId |-> data.userId]

\* the documents of query(collection(db, 'contracts'), where('userId', '==',
\* user.uid)), in document-id order
IdOrder == <<"a", "b">>
QueryDocs(d) ==
    SelectSeq(IdOrder, LAMBDA id : id \in DOMAIN d /\ d[id].userId = Uid)

pageDaysSinceCreated_SinceLastUpdate(n, data) ==
    daysSinceCreated(n, IF data.updatedAt # Unset THEN data.updatedAt ELSE data.createdAt)

\* line 597: daysSinceCreated of the list page
pageDaysSinceCreated(n, data) == daysSinceCreated(n, data.createdAt)

\* the switch of generateAIReminders (lines 600-624), for one document
AiSwitch(rem, id, data, days) ==
    CASE data.status = "draft" ->
           IF days > 3
             THEN Assign(rem, id,
                    Template("memo", "This draft has been sitting for ", days,
                             " days. Consider reviewing and moving to negotiation."))
             ELSE rem
      [] data.status = "negotiating" ->
           IF days > 7
             THEN Assign(rem, id,
                    Template("speech balloon", "Negotiation ongoing for ", days,
                             " days. Time to follow up with the counterparty?"))
             ELSE rem
      [] data.status = "signed in" ->
           IF days > 14
             THEN Assign(rem, id,
                    Template("fire",
                             "Hey, there's possibility to move this deal forward - it's been signed for ",
                             days, " days. Time to start execution!"))
             ELSE rem
      [] data.status = "in progress" ->
           IF days > 30
             THEN Assign(rem, id,
                    Template("alarm clock", "This contract has been in progress for ", days,
                             " days. Check if milestones are being met."))
             ELSE rem
      [] data.status = "completed" ->
           Assign(rem, id,
             Icon("check mark",
                  "Great job completing this contract! Consider asking for testimonials or referrals."))
      [] OTHER -> rem

\* querySnapshot.docs.forEach(...) of generateAIReminders (lines 593-625)
RECURSIVE aiForEach(_, _, _, _, _)
aiForEach(d, ids, i, n, rem) ==
    IF i > Len(ids) THEN rem
    ELSE aiForEach(d, ids, i + 1, n,
                   AiSwitch(rem, ids[i], d[ids[i]], pageDaysSinceCreated(n, d[ids[i]])))

\* the reminders generateAIReminders computes from a query snapshot at time n
aiRemindersOf(d, n) == aiForEach(d, QueryDocs(d), 1, n, NoReminders)

\* a.timestamp is not later than b.timestamp (the comparator of line 154)
NotLater(a, b) ==
    \/ a.timestamp.day < b.timestamp.day
    \/ a.timestamp.day = b.timestamp.day /\ a.timestamp.ms <= b.timestamp.ms

\* events.sort(...) of line 154, a stable sort: the events in order of
\* timestamp, events of equal timestamp in the order they were pushed
RECURSIVE sortEvents(_)
sortEvents(events) ==
    IF events = <<>> THEN <<>>
    ELSE LET sorted == sortEvents(SubSeq(events, 1, Len(events) - 1))
             e == events[Len(events)]
             keep == {k \in 0..Len(sorted) :
                        \A j \in 1..k : NotLater(sorted[j], e)}
             k == CHOOSE k \in keep : \A m \in keep : m <= k
         IN  SubSeq(sorted, 1, k) \o <<e>> \o SubSeq(sorted, k + 1, Len(sorted))

\* the milestone events of lines 124-151, for the statuses up to index upTo
RECURSIVE milestones(_, _)
milestones(c, upTo) ==
    IF upTo = 0 THEN <<>>
    ELSE milestones(c, upTo - 1) \o
         << IF upTo < indexOf(c.status)
              THEN [id |-> "milestone-" \o STATUS_ORDER[upTo],
                    status |-> STATUS_ORDER[upTo],
                    timestamp |-> c.createdAt,
                    description |-> Label(STATUS_ORDER[upTo]) \o " completed"]
              ELSE [id |-> "milestone-" \o STATUS_ORDER[upTo],
                    status |-> STATUS_ORDER[upTo],
                    timestamp |-> IF c.updatedAt # Unset THEN c.updatedAt ELSE c.createdAt,
                    description |-> "Currently in " \o Label(STATUS_ORDER[upTo]) \o " phase"] >>

generateTimeline_Unsorted(c) ==
    << [id |-> "created", status |-> "draft", timestamp |-> c.createdAt,
        description |-> "Contract uploaded and analyzed"] >>
    \o (IF c.updatedAt # Unset /\ c.updatedAt # c.createdAt
          THEN << [id |-> "updated", status |-> c.status, timestamp |-> c.updatedAt,
                   description |-> "Status updated to " \o c.status] >>
          ELSE <<>>)
    \o milestones(c, indexOf(c.status))

\* generateTimeline (lines 98-156): the value handed to setTimeline
generateTimeline(c) ==
    sortEvents(
      << [id |-> "created", status |-> "draft", timestamp |-> c.createdAt,
          description |-> "Contract uploaded and analyzed"] >>
      \o (IF c.updatedAt # Unset /\ c.updatedAt # c.createdAt
            THEN << [id |-> "updated", status |-> c.status, timestamp |-> c.updatedAt,
                     description |-> "Status updated to " \o c.status] >>
            ELSE <<>>)
      \o milestones(c, indexOf(c.status)))

\* the 'Days Active' figure of the detail page (line 289):
\* Math.ceil((Date.now() - new Date(contract.createdAt).getTime()) /
\* (1000 * 60 * 60 * 24)), Date.now() being n
DaysActive(n, c) ==
    LET t == getTime(c.createdAt)
    IN  (n.day - t.day) - ((t.ms - n.ms) \div MS_PER_DAY)

updateDoc_TouchesCreatedAt(d, id, newStatus, at) ==
    [d EXCEPT ![id] = [@ EXCEPT !.status = newStatus, !.updatedAt = at,
                                !.createdAt = at]]

\* updateDoc(contractRef, { status, updatedAt }) (lines 163-166 and 636-639)
updateDoc(d, id, newStatus, at) ==
    [d EXCEPT ![id] = [@ EXCEPT !.status = newStatus, !.updatedAt = at]]

\* { ...contract, status: newStatus, updatedAt: ... } (lines 169 and 644)
Updated(c, newStatus, at) == [c EXCEPT !.status = newStatus, !.updatedAt = at]

\* prev.map(contract => contract.id === contractId ? {...} : contract)
MapUpdated(cs, id, newStatus, at) ==
    [i \in DOMAIN cs |-> IF cs[i].id = id THEN Updated(cs[i], newStatus, at) ELSE cs[i]]

----------------------------------------------------------------------------
(* Inputs *)

Days == 0..(MaxAge + MaxSkew)

\* every contract record of the bounded domain
AllContracts ==
    [id : ContractIds, fileName : {"contract.pdf"}, status : Statuses,
     createdAt : [day : Days, ms : MsSamples]]

\* contracts at the ages next to the thresholds 3, 7, 14 and 30, for the
\* lists of several contracts
ThresholdAges == {2, 13, 14, 30, 31}

ThresholdContracts ==
    [id : ContractIds, fileName : {"contract.pdf"},
     status : KnownStatuses \cup {"signed_in"},
     createdAt : [day : {NowDay - a : a \in ThresholdAges}, ms : {0}]]

\* the lists of one call: none or one contract of any age, or several
\* contracts at the threshold ages
ContractLists(k) ==
    IF k <= 1 THEN [1..k -> AllContracts] ELSE [1..k -> ThresholdContracts]

----------------------------------------------------------------------------
(* The calls *)

\* the arguments of the two functions: a list with the status of its first
\* contract, or a status with every red-flag count
NoAccessManager ==
    /\ activeTab = "documents"
    /\ loading = FALSE
    /\ error = ""
    /\ loaded = {}
    /\ ops = <<>>
    /\ started = 0

NoPages ==
    /\ db = <<>>
    /\ aiReminders = NoReminders
    /\ loadingContracts = FALSE
    /\ queries = <<>>
    /\ route = ""
    /\ pageContract = NoContract
    /\ loadingContract = FALSE
    /\ timeline = <<>>
    /\ writes = {}
    /\ updates = 0
    /\ authLoading = FALSE
    /\ user = ""
    /\ pathname = ""
    /\ pending = {}
    /\ logged = {}
    /\ tabs = {}

Init ==
    /\ NoPages
    /\ NoAccessManager
    /\ returned = {}
    /\ reminders = NoReminders
    /\ suggestions = <<>>
    /\ \/ /\ \E k \in 0..MaxContracts : contracts \in ContractLists(k)
          /\ now \in IF Len(contracts) <= 1 THEN Nows ELSE {Midnight}
          /\ status = IF contracts = <<>> THEN "draft" ELSE contracts[1].status
          /\ redFlagsCount = 0
       \/ /\ contracts = <<>>
          /\ now = Midnight
          /\ status \in Statuses
          /\ redFlagsCount \in 0..MaxRedFlags

CallGenerateContractReminders_ReordersTheList ==
    /\ reminders' = generateContractReminders(contracts, now)
    /\ returned' = returned \cup {"generateContractReminders"}
    /\ contracts' = [i \in DOMAIN contracts |-> contracts[Len(contracts) + 1 - i]]
    /\ UNCHANGED <<now, status, redFlagsCount, suggestions, pageVars, accessVars>>

\* a caller invokes generateContractReminders(contracts); Date.now() is now
CallGenerateContractReminders ==
    /\ reminders' = generateContractReminders(contracts, now)
    /\ returned' = returned \cup {"generateContractReminders"}
    /\ UNCHANGED <<contracts, now, status, redFlagsCount, suggestions, pageVars, accessVars>>

\* a caller invokes getStatusSuggestions(status, redFlagsCount)
CallGetStatusSuggestions ==
    /\ suggestions' = getStatusSuggestions(status, redFlagsCount)
    /\ returned' = returned \cup {"getStatusSuggestions"}
    /\ UNCHANGED <<contracts, now, status, redFlagsCount, reminders, pageVars, accessVars>>

Next ==
    \/ CallGenerateContractReminders
    \/ CallGetStatusSuggestions

Spec == Init /\ [][Next]_vars

----------------------------------------------------------------------------
(* Repeated calls for one contract while the clock advances *)

\* the last day the clock reaches
ClockEnd == MaxAge + MaxSkew

\* one contract of each status, created during day 1
ClockContracts ==
    [id : {"a"}, fileName : {"contract.pdf"}, status : KnownStatuses,
     createdAt : [day : {1}, ms : MsSamples]]

\* the clock starts at day 0, before the contract's createdAt
ClockInit ==
    /\ NoPages
    /\ NoAccessManager
    /\ returned = {}
    /\ reminders = NoReminders
    /\ suggestions = <<>>
    /\ redFlagsCount = 0
    /\ contracts \in [1..1 -> ClockContracts]
    /\ status = contracts[1].status
    /\ now = [day |-> 0, ms |-> 0]

\* Date.now() grows between two calls (line 9)
ClockAdvances ==
    /\ \E n \in [day : {now.day, now.day + 1}, ms : MsSamples] :
          /\ n.day <= ClockEnd
          /\ n.day > now.day \/ n.ms > now.ms
          /\ now' = n
    /\ UNCHANGED <<contracts, callVars, pageVars, accessVars>>

ClockNext ==
    \/ ClockAdvances
    \/ CallGenerateContractReminders

ClockSpec == ClockInit /\ [][ClockNext]_vars

----------------------------------------------------------------------------
(* The two contract pages over one store *)

\* the stored document of contract "a", owned by the signed-in user: a
\* draft created 3 days before the pages mount, or a contract completed and
\* created 31 days before
DocsA ==
    {[fileName |-> "contract.pdf", status |-> p[1],
      createdAt |-> [day |-> NowDay - p[2], ms |-> 0],
      updatedAt |-> Unset, userId |-> Uid] : p \in {<<"draft", 3>>, <<"completed", 31>>}}

\* the stored document of contract "b", of user u
DocB(u) ==
    [fileName |-> "other.pdf", status |-> "negotiating",
     createdAt |-> [day |-> NowDay - 8, ms |-> 0],
     updatedAt |-> Unset, userId |-> u]

\* what one behaviour starts from: the store, the pages that are open (the
\* list, the detail page, or both in two tabs) and the id in the route of
\* the detail page. The list is open over the user's contract "a", alone or
\* with the user's contract "b"; the detail page is open for "a", or for "b",
\* which is not stored or is another user's; both are open over the
\* completed contract "a"
Scenarios ==
    {[db |-> [id \in {"a"} |-> a], tabs |-> {"list"}, route |-> ""] : a \in DocsA}
      \cup {[db |-> [id \in {"a", "b"} |-> IF id = "a" THEN a ELSE DocB(Uid)],
             tabs |-> {"list"}, route |-> ""] : a \in DocsA}
      \cup {[db |-> [id \in {"a"} |-> a], tabs |-> {"detail"}, route |-> r] :
              a \in DocsA, r \in {"a", "b"}}
      \cup {[db |-> [id \in {"a", "b"} |-> IF id = "a" THEN a ELSE DocB("u2")],
             tabs |-> {"detail"}, route |-> "b"] : a \in DocsA}
      \cup {[db |-> [id \in {"a"} |-> a], tabs |-> {"list", "detail"}, route |-> "a"] :
              a \in {d \in DocsA : d.status = "completed"}}

\* useAuth returns user: null
NoUser == ""

\* the path of the detail page, and the path router.push is called with
DetailPath == "/contracts/[id]"
ContractsPath == "/contracts"

\* a getDocs of generateAIReminders that the store has not answered yet, and
\* one the store has answered: 'answer' is what the rest of
\* generateAIReminders computes from the snapshot
Unanswered == [answered |-> FALSE, answer |-> NoReminders]
Answered(rem) == [answered |-> TRUE, answer |-> rem]

\* the sequence q without its k-th element
Remove(q, k) == SubSeq(q, 1, k - 1) \o SubSeq(q, k + 1, Len(q))

\* both pages have just mounted and render for the first time, useAuth still
\* loading (lines 52-55 and 546-550); the clock reads 'now' for as long as
\* they stay open
PageInit ==
    /\ NoAccessManager
    /\ \E sc \in Scenarios : db = sc.db /\ tabs = sc.tabs /\ route = sc.route
    /\ now = Midnight
    /\ authLoading = TRUE
    /\ user = NoUser
    /\ contracts = <<>>
    /\ loadingContracts = TRUE
    /\ aiReminders = NoReminders
    /\ queries = <<>>
    /\ pathname = IF "detail" \in tabs THEN DetailPath ELSE ""
    /\ pageContract = NoContract
    /\ loadingContract = TRUE
    /\ timeline = <<>>
    /\ pending = {}
    /\ writes = {}
    /\ updates = 0
    /\ logged = {}
    /\ returned = {}
    /\ reminders = NoReminders
    /\ status = "draft"
    /\ redFlagsCount = 0
    /\ suggestions = <<>>

\* useAuth stops loading, with the signed-in user or with none; with a user
\* the effects run: the list page starts loadContracts and
\* generateAIReminders (lines 553-558) and the detail page starts
\* loadContract for its route id (lines 57-61), each up to its await
AuthResolves(u) ==
    /\ authLoading
    /\ authLoading' = FALSE
    /\ user' = u
    /\ IF u # NoUser
         THEN /\ pending' = {p \in {"loadContracts", "loadContract"} :
                              \/ p = "loadContracts" /\ "list" \in tabs
                              \/ p = "loadContract" /\ "detail" \in tabs}
              /\ queries' = IF "list" \in tabs THEN <<Unanswered>> ELSE <<>>
         ELSE UNCHANGED <<pending, queries>>
    /\ UNCHANGED <<accessVars, tabs, now, contracts, callVars, db, aiReminders, loadingContracts,
                   route, pageContract, loadingContract, timeline, writes, updates,
                   pathname, logged>>

\* getDocs of loadContracts resolves (lines 568-575, 578-580)
LoadContractsResolves ==
    /\ "loadContracts" \in pending
    /\ pending' = pending \ {"loadContracts"}
    /\ contracts' = [i \in DOMAIN QueryDocs(db) |->
                       WithId(QueryDocs(db)[i], db[QueryDocs(db)[i]])]
    /\ loadingContracts' = FALSE
    /\ UNCHANGED <<accessVars, tabs, now, callVars, db, aiReminders, queries, route, pageContract,
                   loadingContract, timeline, writes, updates,
                   authLoading, user, pathname, logged>>

\* getDocs of loadContracts rejects (lines 576-580)
LoadContractsFails ==
    /\ "loadContracts" \in pending
    /\ pending' = pending \ {"loadContracts"}
    /\ logged' = logged \cup {"Error loading contracts:"}
    /\ loadingContracts' = FALSE
    /\ UNCHANGED <<accessVars, tabs, now, contracts, callVars, db, aiReminders, queries, route,
                   pageContract, loadingContract, timeline, writes, updates,
                   authLoading, user, pathname>>

\* the store answers the k-th getDocs of generateAIReminders under way with a
\* snapshot of the user's contracts (line 591)
RemindersQueryRuns(k) ==
    /\ k \in DOMAIN queries
    /\ ~queries[k].answered
    /\ queries' = [queries EXCEPT ![k] = Answered(aiRemindersOf(db, now))]
    /\ UNCHANGED <<accessVars, tabs, now, contracts, callVars, db, aiReminders, loadingContracts, route,
                   pageContract, loadingContract, timeline, writes, updates,
                   authLoading, user, pathname, pending, logged>>

\* an answered getDocs of generateAIReminders resolves and the function runs
\* to its end (lines 591-627)
RemindersQueryResolves(k) ==
    /\ k \in DOMAIN queries
    /\ queries[k].answered
    /\ aiReminders' = queries[k].answer
    /\ queries' = Remove(queries, k)
    /\ UNCHANGED <<accessVars, tabs, now, contracts, callVars, db, loadingContracts, route,
                   pageContract, loadingContract, timeline, writes, updates,
                   authLoading, user, pathname, pending, logged>>

\* a getDocs of generateAIReminders rejects (lines 628-630)
RemindersQueryFails(k) ==
    /\ k \in DOMAIN queries
    /\ queries' = Remove(queries, k)
    /\ logged' = logged \cup {"Error generating AI reminders:"}
    /\ UNCHANGED <<accessVars, tabs, now, contracts, callVars, db, aiReminders, loadingContracts,
                   route, pageContract, loadingContract, timeline, writes, updates,
                   authLoading, user, pathname, pending>>

\* the user picks another status in the select of a row of the list (lines
\* 823-833): updateContractStatus runs up to its await (lines 633-639)
ListUpdateContractStatus(contractId, newStatus) ==
    /\ updates < MaxUpdates
    /\ \E i \in DOMAIN contracts :
         contracts[i].id = contractId /\ contracts[i].status # newStatus
    /\ writes' = writes \cup {[page |-> "list", id |-> contractId, status |-> newStatus,
                               updatedAt |-> now, closure |-> NoContract]}
    /\ updates' = updates + 1
    /\ UNCHANGED <<accessVars, tabs, now, contracts, callVars, db, aiReminders, loadingContracts,
                   queries, route, pageContract, loadingContract, timeline,
                   authLoading, user, pathname, pending, logged>>

\* LoadContractResolves without the ownership check of lines 81-86
LoadContractResolves_NoOwnerCheck ==
    /\ "loadContract" \in pending
    /\ pending' = pending \ {"loadContract"}
    /\ loadingContract' = FALSE
    /\ IF route \notin DOMAIN db
         THEN /\ pathname' = ContractsPath
              /\ UNCHANGED <<pageContract, timeline>>
         ELSE /\ pageContract' = WithId(route, db[route])
              /\ timeline' = generateTimeline(WithId(route, db[route]))
              /\ UNCHANGED pathname
    /\ UNCHANGED <<accessVars, tabs, now, contracts, callVars, db, aiReminders, loadingContracts,
                   queries, route, writes, updates, authLoading, user, logged>>

\* getDoc of loadContract resolves (lines 66-89, 93-95)
LoadContractResolves ==
    /\ "loadContract" \in pending
    /\ pending' = pending \ {"loadContract"}
    /\ loadingContract' = FALSE
    /\ IF route \notin DOMAIN db
         THEN /\ pathname' = ContractsPath
              /\ UNCHANGED <<pageContract, timeline>>
         ELSE IF db[route].userId # user
                THEN /\ pathname' = ContractsPath
                     /\ UNCHANGED <<pageContract, timeline>>
                ELSE /\ pageContract' = WithId(route, db[route])
                     /\ timeline' = generateTimeline(WithId(route, db[route]))
                     /\ UNCHANGED pathname
    /\ UNCHANGED <<accessVars, tabs, now, contracts, callVars, db, aiReminders, loadingContracts,
                   queries, route, writes, updates, authLoading, user, logged>>

\* getDoc of loadContract rejects (lines 90-95)
LoadContractFails ==
    /\ "loadContract" \in pending
    /\ pending' = pending \ {"loadContract"}
    /\ logged' = logged \cup {"Error loading contract:"}
    /\ loadingContract' = FALSE
    /\ UNCHANGED <<accessVars, tabs, now, contracts, callVars, db, aiReminders, loadingContracts,
                   queries, route, pageContract, timeline, writes, updates,
                   authLoading, user, pathname>>

\* what the detail page renders (lines 187-231)
DetailScreen ==
    IF authLoading \/ loadingContract THEN "Loading..."
    ELSE IF user = NoUser THEN "Please sign in to view contract details."
    ELSE IF pageContract = NoContract THEN "Contract Not Found"
    ELSE "contract"

\* the user presses 'Back to Contracts' on the not-found screen (lines
\* 211-227)
BackToContracts ==
    /\ pathname = DetailPath
    /\ DetailScreen = "Contract Not Found"
    /\ pathname' = ContractsPath
    /\ UNCHANGED <<accessVars, tabs, now, contracts, callVars, db, aiReminders, loadingContracts,
                   queries, route, pageContract, loadingContract, timeline, writes,
                   updates, authLoading, user, pending, logged>>

\* the user picks another status in the select of the detail page or presses
\* an enabled quick-action button (lines 259-269, 299-326):
\* updateContractStatus runs up to its await (lines 158-166)
DetailUpdateContractStatus(newStatus) ==
    /\ updates < MaxUpdates
    /\ pathname = DetailPath
    /\ DetailScreen = "contract"
    /\ pageContract # NoContract
    /\ pageContract.status # newStatus
    /\ writes' = writes \cup {[page |-> "detail", id |-> pageContract.id,
                               status |-> newStatus, updatedAt |-> now,
                               closure |-> pageContract]}
    /\ updates' = updates + 1
    /\ UNCHANGED <<accessVars, tabs, now, contracts, callVars, db, aiReminders, loadingContracts,
                   queries, route, pageContract, loadingContract, timeline,
                   authLoading, user, pathname, pending, logged>>

\* updateDoc resolves and the handler that awaited it runs to its end (lines
\* 168-171 of the detail page; lines 641-650 of the list, whose
\* generateAIReminders runs up to its await)
UpdateDocResolves(w) ==
    /\ w \in writes
    /\ writes' = writes \ {w}
    /\ db' = updateDoc(db, w.id, w.status, w.updatedAt)
    /\ IF w.page = "list"
         THEN /\ contracts' = MapUpdated(contracts, w.id, w.status, now)
              /\ queries' = Append(queries, Unanswered)
              /\ UNCHANGED <<pageContract, timeline>>
         ELSE /\ pageContract' = Updated(w.closure, w.status, now)
              /\ timeline' = generateTimeline(Updated(w.closure, w.status, now))
              /\ UNCHANGED <<contracts, queries>>
    /\ UNCHANGED <<accessVars, tabs, now, callVars, aiReminders, loadingContracts, route,
                   loadingContract, updates, authLoading, user, pathname, pending,
                   logged>>

\* UpdateDocFails of a handler that updates the local state before the await
\* and does not take the update back in its catch block
UpdateDocFails_KeepsLocalUpdate(w) ==
    /\ w \in writes
    /\ writes' = writes \ {w}
    /\ logged' = logged \cup {"Error updating contract status:"}
    /\ IF w.page = "list"
         THEN /\ contracts' = MapUpdated(contracts, w.id, w.status, now)
              /\ UNCHANGED <<pageContract, timeline>>
         ELSE /\ pageContract' = Updated(w.closure, w.status, now)
              /\ timeline' = generateTimeline(Updated(w.closure, w.status, now))
              /\ UNCHANGED contracts
    /\ UNCHANGED <<accessVars, tabs, now, callVars, db, aiReminders, loadingContracts,
                   queries, route, loadingContract, updates,
                   authLoading, user, pathname, pending>>

\* updateDoc rejects: the catch block logs (and alerts on the detail page)
\* (lines 172-175 and 651-653)
UpdateDocFails(w) ==
    /\ w \in writes
    /\ writes' = writes \ {w}
    /\ logged' = logged \cup {"Error updating contract status:"}
    /\ UNCHANGED <<accessVars, tabs, now, contracts, callVars, db, aiReminders, loadingContracts,
                   queries, route, pageContract, loadingContract, timeline, updates,
                   authLoading, user, pathname, pending>>

PageNext ==
    \/ \E u \in {Uid, NoUser} : AuthResolves(u)
    \/ LoadContractsResolves
    \/ LoadContractsFails
    \/ \E k \in DOMAIN queries : RemindersQueryRuns(k)
    \/ \E k \in DOMAIN queries : RemindersQueryResolves(k)
    \/ \E k \in DOMAIN queries : RemindersQueryFails(k)
    \/ \E id \in ContractIds, s \in Range(STATUS_OPTIONS) : ListUpdateContractStatus(id, s)
    \/ LoadContractResolves
    \/ LoadContractFails
    \/ BackToContracts
    \/ \E s \in Range(STATUS_OPTIONS) \cup QuickActionStatuses : DetailUpdateContractStatus(s)
    \/ \E w \in writes : UpdateDocResolves(w)
    \/ \E w \in writes : UpdateDocFails(w)

PageSpec == PageInit /\ [][PageNext]_vars

\* the pages under the scheduling the runtime provides: the promise of a
\* getDoc under way settles, so loadContract runs on to its finally block
FairPageSpec ==
    PageSpec /\ WF_vars(LoadContractFails \/ LoadContractResolves)

----------------------------------------------------------------------------
(* DocumentAccessManager                                                    *)
(* (src/Frontend/src/components/DocumentAccessManager.tsx)                  *)

\* the three tabs (line 41)
Tabs == {"documents", "requests", "approvals"}

\* the fetch the effect starts for a tab (lines 185-191), named by the state
\* it sets
FetchOf(tab) ==
    CASE tab = "documents" -> "documents"
      [] tab = "requests" -> "accessRequests"
      [] tab = "approvals" -> "pendingRequests"

\* the message a failed fetch hands to setError (lines 64-67, 81-84, 98-101)
FetchError(what) ==
    CASE what = "documents" -> "Failed to fetch documents"
      [] what = "accessRequests" -> "Failed to fetch access requests"
      [] what = "pendingRequests" -> "Failed to fetch pending requests"

\* an operation under way: the function the component started and the
\* request it is awaiting
Op(kind, awaits) == [kind |-> kind, awaits |-> awaits]

\* the component as constructed (lines 41-47), before its effect has run
AccessInit ==
    /\ NoPages
    /\ NoAccessManager
    /\ contracts = <<>>
    /\ now = Midnight
    /\ returned = {}
    /\ reminders = NoReminders
    /\ status = "draft"
    /\ redFlagsCount = 0
    /\ suggestions = <<>>

\* the effect of lines 183-192 as it runs for tab: fetchUsers and the fetch
\* of the tab each run up to their await; the latter has called
\* setLoading(true)
EffectOps(tab) == <<Op("fetchUsers", "users"), Op("fetch", FetchOf(tab))>>

\* the component mounts and its effect runs for the first time
Mount ==
    /\ started = 0
    /\ started' = 1
    /\ ops' = ops \o EffectOps(activeTab)
    /\ loading' = TRUE
    /\ UNCHANGED <<activeTab, error, loaded, contracts, now, callVars, pageVars>>

\* the user clicks another tab (lines 227, 237, 247) and the effect runs
setActiveTab(tab) ==
    /\ started > 0 /\ started < MaxOps
    /\ tab # activeTab
    /\ started' = started + 1
    /\ activeTab' = tab
    /\ ops' = ops \o EffectOps(tab)
    /\ loading' = TRUE
    /\ UNCHANGED <<error, loaded, contracts, now, callVars, pageVars>>

\* the request of fetchUsers settles (lines 109-116)
fetchUsersSettles(k, ok) ==
    /\ k \in DOMAIN ops
    /\ ops[k].kind = "fetchUsers"
    /\ ops' = Remove(ops, k)
    /\ loaded' = IF ok THEN loaded \cup {"users"} ELSE loaded
    /\ UNCHANGED <<activeTab, loading, error, started, contracts, now, callVars, pageVars>>

\* the request of a fetchDocuments, fetchAccessRequests or
\* fetchPendingRequests started by the effect settles, and the function runs
\* to the end of its finally block (lines 59-70, 76-87, 93-104)
fetchSettles(k, ok) ==
    /\ k \in DOMAIN ops
    /\ ops[k].kind = "fetch"
    /\ ops' = Remove(ops, k)
    /\ loaded' = IF ok THEN loaded \cup {ops[k].awaits} ELSE loaded
    /\ error' = IF ok THEN error ELSE FetchError(ops[k].awaits)
    /\ loading' = FALSE
    /\ UNCHANGED <<activeTab, started, contracts, now, callVars, pageVars>>

\* the user submits an access request from the documents tab, which lists
\* documents only while loading is false (lines 332, 383-390):
\* requestAccess runs up to the await of its POST (lines 120-135)
requestAccess ==
    /\ started > 0 /\ started < MaxOps
    /\ activeTab = "documents" /\ ~loading /\ "documents" \in loaded
    /\ started' = started + 1
    /\ loading' = TRUE
    /\ error' = ""
    /\ ops' = Append(ops, Op("requestAccess", "POST"))
    /\ UNCHANGED <<activeTab, loaded, contracts, now, callVars, pageVars>>

\* the POST of requestAccess settles: with response.ok, fetchAccessRequests
\* runs up to its await (lines 137-138); otherwise the catch and finally
\* blocks run (lines 140-147)
requestAccessPosted(k, ok) ==
    /\ k \in DOMAIN ops
    /\ ops[k] = Op("requestAccess", "POST")
    /\ IF ok
         THEN /\ ops' = [ops EXCEPT ![k] = Op("requestAccess", "accessRequests")]
              /\ loading' = TRUE
              /\ UNCHANGED error
         ELSE /\ ops' = Remove(ops, k)
              /\ error' = "Failed to create access request"
              /\ loading' = FALSE
    /\ UNCHANGED <<activeTab, loaded, started, contracts, now, callVars, pageVars>>

\* the user approves or rejects a request on the approvals tab, which lists
\* requests only while loading is false (line 485): makeDecision runs up to
\* the await of its PUT (lines 151-166)
makeDecision ==
    /\ started > 0 /\ started < MaxOps
    /\ activeTab = "approvals" /\ ~loading /\ "pendingRequests" \in loaded
    /\ started' = started + 1
    /\ loading' = TRUE
    /\ error' = ""
    /\ ops' = Append(ops, Op("makeDecision", "PUT"))
    /\ UNCHANGED <<activeTab, loaded, contracts, now, callVars, pageVars>>

\* the PUT of makeDecision settles: with response.ok, fetchPendingRequests
\* runs up to its await (lines 168-169); otherwise the catch and finally
\* blocks run (lines 172-179)
makeDecisionPut(k, ok) ==
    /\ k \in DOMAIN ops
    /\ ops[k] = Op("makeDecision", "PUT")
    /\ IF ok
         THEN /\ ops' = [ops EXCEPT ![k] = Op("makeDecision", "pendingRequests")]
              /\ loading' = TRUE
              /\ UNCHANGED error
         ELSE /\ ops' = Remove(ops, k)
              /\ error' = "Failed to make decision"
              /\ loading' = FALSE
    /\ UNCHANGED <<activeTab, loaded, started, contracts, now, callVars, pageVars>>

\* the fetchPendingRequests awaited by makeDecision returns, its finally
\* block having called setLoading(false) (line 103), and makeDecision goes on
\* to fetchAccessRequests, which runs up to its await and has called
\* setLoading(true) (lines 169-170, 75)
makeDecisionRefetchedPending(k, ok) ==
    /\ k \in DOMAIN ops
    /\ ops[k] = Op("makeDecision", "pendingRequests")
    /\ ops' = [ops EXCEPT ![k] = Op("makeDecision", "accessRequests")]
    /\ loaded' = IF ok THEN loaded \cup {"pendingRequests"} ELSE loaded
    /\ error' = IF ok THEN error ELSE FetchError("pendingRequests")
    /\ loading' = TRUE
    /\ UNCHANGED <<activeTab, started, contracts, now, callVars, pageVars>>

\* the fetchAccessRequests awaited by requestAccess or makeDecision returns
\* and the function runs to the end of its finally block (lines 76-87, then
\* 138-139 and 145-147, or 170-171 and 177-179)
refetchedAccessRequests(k, ok) ==
    /\ k \in DOMAIN ops
    /\ ops[k].kind \in {"requestAccess", "makeDecision"}
    /\ ops[k].awaits = "accessRequests"
    /\ ops' = Remove(ops, k)
    /\ loaded' = IF ok THEN loaded \cup {"accessRequests"} ELSE loaded
    /\ error' = IF ok THEN error ELSE FetchError("accessRequests")
    /\ loading' = FALSE
    /\ UNCHANGED <<activeTab, started, contracts, now, callVars, pageVars>>

AccessNext ==
    \/ Mount
    \/ \E tab \in Tabs : setActiveTab(tab)
    \/ \E k \in DOMAIN ops, ok \in BOOLEAN : fetchUsersSettles(k, ok)
    \/ \E k \in DOMAIN ops, ok \in BOOLEAN : fetchSettles(k, ok)
    \/ requestAccess
    \/ \E k \in DOMAIN ops, ok \in BOOLEAN : requestAccessPosted(k, ok)
    \/ makeDecision
    \/ \E k \in DOMAIN ops, ok \in BOOLEAN : makeDecisionPut(k, ok)
    \/ \E k \in DOMAIN ops, ok \in BOOLEAN : makeDecisionRefetchedPending(k, ok)
    \/ \E k \in DOMAIN ops, ok \in BOOLEAN : refetchedAccessRequests(k, ok)

AccessSpec == AccessInit /\ [][AccessNext]_vars

----------------------------------------------------------------------------
(* generateTimeline of the detail page, called on its own *)

\* the timestamps of the contracts generateTimeline is called on: the first
\* and the last millisecond of yesterday and of today
TimelineTimes == [day : {NowDay - 1, NowDay}, ms : {0, MS_PER_DAY - 1}]

\* the contracts generateTimeline is called on: every lifecycle status,
\* updatedAt missing, equal to createdAt, earlier or later
TimelineContracts ==
    [id : {"a"}, fileName : {"contract.pdf"}, status : Range(STATUS_ORDER),
     createdAt : TimelineTimes, updatedAt : TimelineTimes \cup {Unset},
     userId : {Uid}]

\* the detail page holding contractData, before generateTimeline(contractData)
TimelineInit ==
    /\ NoAccessManager
    /\ contracts = <<>>
    /\ now = Midnight
    /\ returned = {}
    /\ reminders = NoReminders
    /\ status = "draft"
    /\ redFlagsCount = 0
    /\ suggestions = <<>>
    /\ db = <<>>
    /\ aiReminders = NoReminders
    /\ loadingContracts = FALSE
    /\ queries = <<>>
    /\ route = "a"
    /\ pageContract \in TimelineContracts
    /\ loadingContract = FALSE
    /\ timeline = <<>>
    /\ writes = {}
    /\ updates = 0
    /\ authLoading = FALSE
    /\ user = Uid
    /\ pathname = DetailPath
    /\ pending = {}
    /\ logged = {}
    /\ tabs = {"detail"}

\* generateTimeline(contractData) runs to its setTimeline(events) (line 155)
CallGenerateTimeline ==
    /\ timeline = <<>>
    /\ timeline' = generateTimeline(pageContract)
    /\ UNCHANGED <<accessVars, contracts, now, callVars, db, aiReminders,
                   loadingContracts, queries, route, pageContract, loadingContract,
                   writes, updates, authLoading, user, pathname, pending, logged,
                   tabs>>

TimelineNext == CallGenerateTimeline

TimelineSpec == TimelineInit /\ [][TimelineNext]_vars

----------------------------------------------------------------------------
(* Vocabulary of the properties *)

\* generateContractReminders has returned: reminders is its result for
\* contracts and now
RemindersReturned == "generateContractReminders" \in returned

\* getStatusSuggestions has returned: suggestions is its result for status
\* and redFlagsCount
SuggestionsReturned == "getStatusSuggestions" \in returned

\* the age in days of a contract, floor((now - createdAt) / 1 day): the k with
\* k days <= now - createdAt < k + 1 days
AgeOf(c) ==
    IF now.ms >= c.createdAt.ms
      THEN now.day - c.createdAt.day
      ELSE now.day - c.createdAt.day - 1

\* the positions of the list
Positions == DOMAIN contracts

\* the contract at position i is the only one of the list with its id
Alone(i) == \A j \in Positions : contracts[j].id = contracts[i].id => j = i

\* the positions that hold the only contract of their id, with status s
AloneWith(s) == {i \in Positions : Alone(i) /\ contracts[i].status = s}

HasEntry(i) == contracts[i].id \in DOMAIN reminders

\* the message of the contract at position i
Message(i) == reminders[contracts[i].id]

\* the number a decimal digit string reads as
DigitValue(ch) ==
    CASE ch = "0" -> 0 [] ch = "1" -> 1 [] ch = "2" -> 2 [] ch = "3" -> 3
      [] ch = "4" -> 4 [] ch = "5" -> 5 [] ch = "6" -> 6 [] ch = "7" -> 7
      [] ch = "8" -> 8 [] ch = "9" -> 9

RECURSIVE ParseDigits(_)
ParseDigits(ds) ==
    IF Len(ds) = 1 THEN DigitValue(ds[1])
    ELSE 10 * ParseDigits(SubSeq(ds, 1, Len(ds) - 1)) + DigitValue(ds[Len(ds)])

\* ds is a decimal numeral, with no sign and no leading zero, that reads as n
ReadsAs(ds, n) ==
    /\ ds # <<>>
    /\ \A k \in DOMAIN ds : ds[k] \in {"0", "1", "2", "3", "4", "5", "6", "7", "8", "9"}
    /\ Len(ds) > 1 => ds[1] # "0"
    /\ ParseDigits(ds) = n

\* the text of a message, whatever emoji it starts with
HasText(m, pre, n, post) == m.pre = pre /\ ReadsAs(m.num, n) /\ m.post = post

CongratulatoryText ==
    "Great job completing this contract! Consider asking for testimonials or referrals."

----------------------------------------------------------------------------
(* Properties *)

\* C1: a completed contract has an entry, the congratulatory message, if and
\* only if its age in days is at most 30: present at 30, absent at 31 and above.
CompletedEntryIffAgeAtMost30 ==
    RemindersReturned =>
      \A i \in AloneWith("completed") :
        /\ HasEntry(i) <=> AgeOf(contracts[i]) <= 30
        /\ HasEntry(i) =>
             /\ Message(i).pre = CongratulatoryText
             /\ Message(i).num = <<>>
             /\ Message(i).post = ""

\* C1 witness: of two completed contracts, the one aged 30 days has the
\* congratulatory message and the one aged 31 days has no entry
CompletedAt30And31 ==
    /\ RemindersReturned
    /\ \E i, j \in AloneWith("completed") :
         /\ AgeOf(contracts[i]) = 30 /\ HasEntry(i)
         /\ Message(i).pre = CongratulatoryText
         /\ AgeOf(contracts[j]) = 31 /\ ~HasEntry(j)

\* C2: a 'signed in' contract aged 14 days or more gets the 'Time to start
\* execution!' message and never the 'Prepare for project kickoff!' message.
SignedInFrom14StartsExecution ==
    RemindersReturned =>
      \A i \in AloneWith("signed in") :
        AgeOf(contracts[i]) >= 14 =>
          /\ HasEntry(i)
          /\ Message(i).post = " days. Time to start execution!"
          /\ Message(i).post # " days ago. Prepare for project kickoff!"
          /\ Message(i).pre # "Contract signed "

\* C2 witness: a 'signed in' contract aged exactly 14 days has the 'Time to
\* start execution!' message
SignedInAtExactly14 ==
    /\ RemindersReturned
    /\ \E i \in AloneWith("signed in") :
         /\ AgeOf(contracts[i]) = 14
         /\ HasEntry(i)
         /\ Message(i).post = " days. Time to start execution!"

\* C3: a 'signed in' contract aged 7 to 13 days gets 'Contract signed {age}
\* days ago. Prepare for project kickoff!', and one aged less than 7 days has
\* no entry.
SignedIn7To13PreparesKickoff ==
    RemindersReturned =>
      \A i \in AloneWith("signed in") :
        LET age == AgeOf(contracts[i])
        IN  /\ (7 <= age /\ age <= 13) =>
                 /\ HasEntry(i)
                 /\ HasText(Message(i), "Contract signed ", age,
                            " days ago. Prepare for project kickoff!")
            /\ age < 7 => ~HasEntry(i)

\* C3 witness: a 'signed in' contract aged 13 days has the kickoff message
\* and another aged 2 days has no entry
SignedInAt13And2 ==
    /\ RemindersReturned
    /\ \E i, j \in AloneWith("signed in") :
         /\ AgeOf(contracts[i]) = 13 /\ HasEntry(i)
         /\ Message(i).post = " days ago. Prepare for project kickoff!"
         /\ AgeOf(contracts[j]) = 2 /\ ~HasEntry(j)

\* C4: a draft contract has an entry if and only if its age in days is at
\* least 3; at the ages 0, 1 and 2 its id is absent from the result.
DraftEntryIffAgeAtLeast3 ==
    RemindersReturned =>
      \A i \in AloneWith("draft") :
        /\ HasEntry(i) <=> AgeOf(contracts[i]) >= 3
        /\ HasEntry(i) => Message(i).pre = "This draft has been sitting for "

\* C4 witness: a draft aged exactly 3 days has an entry
DraftAtExactly3 ==
    /\ RemindersReturned
    /\ \E i \in AloneWith("draft") : AgeOf(contracts[i]) = 3 /\ HasEntry(i)

\* C5: an 'in progress' contract aged 30 days or more gets the 'Check if
\* milestones are being met.' message, one aged 14 to 29 days the 'Consider
\* sending a progress update to the client.' message, one aged less than 14
\* days no entry.
InProgressTiers ==
    RemindersReturned =>
      \A i \in AloneWith("in progress") :
        LET age == AgeOf(contracts[i])
        IN  /\ age >= 30 =>
                 /\ HasEntry(i)
                 /\ HasText(Message(i), "This contract has been in progress for ", age,
                            " days. Check if milestones are being met.")
            /\ (14 <= age /\ age <= 29) =>
                 /\ HasEntry(i)
                 /\ HasText(Message(i), "Project running for ", age,
                            " days. Consider sending a progress update to the client.")
            /\ age < 14 => ~HasEntry(i)

\* C5 witness: of two 'in progress' contracts, the one aged 30 days has the
\* milestones message and the one aged 14 days the progress-update message
InProgressAt30And14 ==
    /\ RemindersReturned
    /\ \E i, j \in AloneWith("in progress") :
         /\ AgeOf(contracts[i]) = 30 /\ HasEntry(i)
         /\ Message(i).post = " days. Check if milestones are being met."
         /\ AgeOf(contracts[j]) = 14 /\ HasEntry(j)
         /\ Message(j).post = " days. Consider sending a progress update to the client."

\* C6: a negotiating contract gets the follow-up reminder if and only if its
\* age in days is at least 7: present at 7, absent at 6.
NegotiatingEntryIffAgeAtLeast7 ==
    RemindersReturned =>
      \A i \in AloneWith("negotiating") :
        /\ HasEntry(i) <=> AgeOf(contracts[i]) >= 7
        /\ HasEntry(i) =>
             Message(i).post = " days. Time to follow up with the counterparty?"

\* C6 witness: a negotiating contract aged exactly 7 days has the follow-up
\* reminder
NegotiatingAtExactly7 ==
    /\ RemindersReturned
    /\ \E i \in AloneWith("negotiating") :
         /\ AgeOf(contracts[i]) = 7 /\ HasEntry(i)
         /\ Message(i).post = " days. Time to follow up with the counterparty?"

\* the statuses whose reminder templates interpolate the age
AgeTemplateStatuses == {"draft", "negotiating", "signed in", "in progress"}

\* C7: every reminder of a draft, negotiating, 'signed in' or 'in progress'
\* contract embeds the decimal numeral of exactly the contract's age in days,
\* the number its threshold was compared against.
ReminderEmbedsTheAge ==
    RemindersReturned =>
      /\ \A i \in Positions :
           (Alone(i) /\ contracts[i].status \in AgeTemplateStatuses /\ HasEntry(i))
             => ReadsAs(Message(i).num, AgeOf(contracts[i]))
      /\ \A id \in DOMAIN reminders :
           reminders[id].num # <<>> =>
             \E i \in Positions :
               /\ contracts[i].id = id
               /\ contracts[i].status \in AgeTemplateStatuses
               /\ ReadsAs(reminders[id].num, AgeOf(contracts[i]))

\* C7 witness: the reminder of a negotiating contract aged 13 days embeds
\* the numeral 13
NegotiatingEmbeds13 ==
    /\ RemindersReturned
    /\ \E i \in AloneWith("negotiating") :
         /\ AgeOf(contracts[i]) = 13
         /\ HasEntry(i)
         /\ Message(i).num = <<"1", "3">>

\* C8: for a status outside the five recognized ones, at any age and any
\* red-flag count, generateContractReminders makes no entry for the contract
\* and getStatusSuggestions returns the empty list.
UnknownStatusYieldsNothing ==
    /\ RemindersReturned =>
         \A i \in Positions :
           (Alone(i) /\ contracts[i].status \notin KnownStatuses) => ~HasEntry(i)
    /\ (SuggestionsReturned /\ status \notin KnownStatuses) => suggestions = <<>>

\* C8 witness: both functions have returned for the status 'signed_in' (the
\* underscore spelling, which no case label matches), on a contract 31 days
\* old: no entry and no suggestions
UnderscoreStatusAt31 ==
    /\ RemindersReturned
    /\ SuggestionsReturned
    /\ status = "signed_in"
    /\ suggestions = <<>>
    /\ \E i \in AloneWith("signed_in") :
         AgeOf(contracts[i]) = 31 /\ ~HasEntry(i)

\* a rule of the reminder table applies to contract c
RuleApplies(c) ==
    LET age == AgeOf(c)
    IN  \/ c.status = "draft" /\ age >= 3
        \/ c.status = "negotiating" /\ age >= 7
        \/ c.status = "signed in" /\ age >= 7
        \/ c.status = "in progress" /\ age >= 14
        \/ c.status = "completed" /\ age <= 30

\* C9: the result maps each id to one message; its keys are exactly the ids
\* of the input contracts for which a rule applies, and no key is mapped to
\* the empty string.
KeysAreTheContractsWithARule ==
    RemindersReturned =>
      /\ DOMAIN reminders =
           {contracts[i].id : i \in {j \in Positions : RuleApplies(contracts[j])}}
      /\ \A id \in DOMAIN reminders :
           /\ reminders[id].pre # ""
           /\ \E i \in Positions :
                /\ contracts[i].id = id
                /\ RuleApplies(contracts[i])
                /\ reminders[id] = generateContractReminders(<<contracts[i]>>, now)[id]

\* C9 witness: of a draft 'a' aged 13 days and a completed 'b' aged 31 days,
\* only 'a' is a key of the result
OnlyTheDraftIsAKey ==
    /\ RemindersReturned
    /\ Len(contracts) = 2
    /\ contracts[1].id = "a" /\ contracts[1].status = "draft"
    /\ AgeOf(contracts[1]) = 13
    /\ contracts[2].id = "b" /\ contracts[2].status = "completed"
    /\ AgeOf(contracts[2]) = 31
    /\ DOMAIN reminders = {"a"}

\* C10: getStatusSuggestions('draft', n) returns 2 suggestions when n = 0 and
\* 3 when n > 0, the red-flag suggestion then being the second, between
\* 'Review the contract terms ...' and 'Prepare your negotiation points ...'.
DraftSuggestionsCountAndOrder ==
    (SuggestionsReturned /\ status = "draft") =>
      /\ suggestions[1] =
           Text("Review the contract terms thoroughly before moving to negotiation")
      /\ suggestions[Len(suggestions)] =
           Text("Prepare your negotiation points and pushback strategies")
      /\ redFlagsCount = 0 => Len(suggestions) = 2
      /\ redFlagsCount > 0 =>
           /\ Len(suggestions) = 3
           /\ suggestions[2].pre = "Address the "
           /\ ReadsAs(suggestions[2].num, redFlagsCount)

\* C10 witness: getStatusSuggestions('draft', 1) has returned 3 suggestions
\* with the red-flag suggestion second
DraftWithOneRedFlag ==
    /\ SuggestionsReturned
    /\ status = "draft"
    /\ redFlagsCount = 1
    /\ Len(suggestions) = 3
    /\ suggestions[2].pre = "Address the "

\* C11: in the draft red-flag suggestion the word is 'red flag' exactly when
\* redFlagsCount = 1 and 'red flags' for every redFlagsCount > 1, and the
\* number shown is redFlagsCount.
RedFlagWordFollowsTheCount ==
    (SuggestionsReturned /\ status = "draft" /\ redFlagsCount > 0) =>
      /\ Len(suggestions) >= 2
      /\ suggestions[2].pre = "Address the "
      /\ ReadsAs(suggestions[2].num, redFlagsCount)
      /\ redFlagsCount = 1 =>
           suggestions[2].post = " red flag identified in the analysis"
      /\ redFlagsCount > 1 =>
           suggestions[2].post = " red flags identified in the analysis"

\* C11 witness: getStatusSuggestions('draft', 1) has returned 'Address the 1
\* red flag identified in the analysis'
OneRedFlagIsSingular ==
    /\ SuggestionsReturned
    /\ status = "draft"
    /\ redFlagsCount = 1
    /\ suggestions[2].num = <<"1">>
    /\ suggestions[2].post = " red flag identified in the analysis"

\* the suggestions of the specification's table, as written there: each
\* sentence ends with a period
SpecTable(s) ==
    CASE s = "negotiating" ->
           << Text("Keep track of all proposed changes in writing."),
              Text("Set clear deadlines for negotiation rounds."),
              Text("Consider scheduling a call to discuss complex terms.") >>
      [] s = "signed in" ->
           << Text("Confirm all parties have signed copies."),
              Text("Set up project management tools and communication channels."),
              Text("Schedule kickoff meeting with all stakeholders.") >>
      [] s = "in progress" ->
           << Text("Send regular progress updates to maintain transparency."),
              Text("Track deliverables against agreed milestones."),
              Text("Document any scope changes or additional requests.") >>
      [] s = "completed" ->
           << Text("Request feedback and testimonials from the client."),
              Text("Ask for referrals to similar projects."),
              Text("Archive project files and update your portfolio.") >>

\* the same sentences without the final period
SpecTableNoPeriod(s) ==
    CASE s = "negotiating" ->
           << Text("Keep track of all proposed changes in writing"),
              Text("Set clear deadlines for negotiation rounds"),
              Text("Consider scheduling a call to discuss complex terms") >>
      [] s = "signed in" ->
           << Text("Confirm all parties have signed copies"),
              Text("Set up project management tools and communication channels"),
              Text("Schedule kickoff meeting with all stakeholders") >>
      [] s = "in progress" ->
           << Text("Send regular progress updates to maintain transparency"),
              Text("Track deliverables against agreed milestones"),
              Text("Document any scope changes or additional requests") >>
      [] s = "completed" ->
           << Text("Request feedback and testimonials from the client"),
              Text("Ask for referrals to similar projects"),
              Text("Archive project files and update your portfolio") >>

FixedSuggestionStatuses == {"negotiating", "signed in", "in progress", "completed"}

\* C12 as stated: for negotiating, 'signed in', 'in progress' and completed,
\* getStatusSuggestions returns exactly the three suggestions of the
\* specification's table, in order, for every redFlagsCount.
FixedSuggestionsAsInSpecTable ==
    (SuggestionsReturned /\ status \in FixedSuggestionStatuses) =>
      suggestions = SpecTable(status)

\* C12 amended: for negotiating, 'signed in', 'in progress' and completed,
\* getStatusSuggestions returns exactly the three suggestions of the
\* specification's table without their final period, in order, for every
\* redFlagsCount.
FixedSuggestionsWithoutPeriod ==
    (SuggestionsReturned /\ status \in FixedSuggestionStatuses) =>
      suggestions = SpecTableNoPeriod(status)

\* C12 witness: getStatusSuggestions('completed', n) has returned its three
\* suggestions for a positive n
CompletedSuggestionsWithRedFlags ==
    /\ SuggestionsReturned
    /\ status = "completed"
    /\ redFlagsCount > 1
    /\ Len(suggestions) = 3
    /\ suggestions[3] = Text("Archive project files and update your portfolio")

\* the ids of the list are pairwise distinct
DistinctIds == \A i \in Positions : Alone(i)

\* the result for the contract at position i alone, at the same now
ResultAlone(i) == generateContractReminders(<<contracts[i]>>, now)

\* the list in reverse order, and with its first contract moved to the end
Reversed(cs) == [i \in 1..Len(cs) |-> cs[Len(cs) + 1 - i]]
Rotated(cs) == IF cs = <<>> THEN cs ELSE Append(Tail(cs), Head(cs))

\* C13: for a list with distinct ids, the result is the union of the results
\* for each contract alone, and it does not depend on the order of the list.
ResultIsUnionOfSingleResults ==
    (RemindersReturned /\ DistinctIds) =>
      /\ DOMAIN reminders = UNION {DOMAIN ResultAlone(i) : i \in Positions}
      /\ \A i \in Positions :
           \A id \in DOMAIN ResultAlone(i) : reminders[id] = ResultAlone(i)[id]
      /\ generateContractReminders(Reversed(contracts), now) = reminders
      /\ generateContractReminders(Rotated(contracts), now) = reminders

\* C13 witness: a draft 'a' and a negotiating 'b', both 13 days old, each
\* have the entry they have alone
TwoContractsTwoEntries ==
    /\ RemindersReturned
    /\ Len(contracts) = 2
    /\ contracts[1].id = "a" /\ contracts[1].status = "draft"
    /\ contracts[2].id = "b" /\ contracts[2].status = "negotiating"
    /\ AgeOf(contracts[1]) = 13 /\ AgeOf(contracts[2]) = 13
    /\ DOMAIN reminders = {"a", "b"}
    /\ reminders["a"].pre = "This draft has been sitting for "
    /\ reminders["b"].pre = "Negotiation ongoing for "

\* now - createdAt in milliseconds, for the differences that fit 32 bits
FitsInt(c) == now.day - c.createdAt.day \in -20..20
DiffMs(c) == (now.day - c.createdAt.day) * MS_PER_DAY + (now.ms - c.createdAt.ms)

\* now >= createdAt
NotInFuture(c) ==
    \/ now.day > c.createdAt.day
    \/ now.day = c.createdAt.day /\ now.ms >= c.createdAt.ms

\* x / 86,400,000 rounded toward zero
TowardZero(x) ==
    IF x >= 0 THEN x \div 86400000 ELSE -((-x) \div 86400000)

\* (now - createdAt) / 86,400,000 rounded toward zero, by days and time of day
TowardZeroDays(c) ==
    LET dd == now.day - c.createdAt.day
        dm == now.ms - c.createdAt.ms
    IN  IF NotInFuture(c)
          THEN dd - (IF dm < 0 THEN 1 ELSE 0)
          ELSE dd + (IF dm > 0 THEN 1 ELSE 0)

\* C15 as stated: the age the rules use is (now - createdAt) / 86,400,000
\* rounded toward zero, and it is >= 0 whenever now >= createdAt.
AgeRoundsTowardZero ==
    RemindersReturned =>
    \A i \in Positions :
      LET c == contracts[i]
          age == daysSinceCreated(now, c.createdAt)
      IN  /\ age = TowardZeroDays(c)
          /\ FitsInt(c) => age = TowardZero(DiffMs(c))
          /\ NotInFuture(c) => age >= 0

\* C15 amended: the age the rules use is (now - createdAt) / 86,400,000
\* rounded down; whenever now >= createdAt that is the quotient rounded
\* toward zero and it is >= 0, and a reminder that shows an age shows this one.
AgeRoundsDown ==
    RemindersReturned =>
    \A i \in Positions :
      LET c == contracts[i]
          age == daysSinceCreated(now, c.createdAt)
      IN  /\ age = AgeOf(c)
          /\ FitsInt(c) => age = DiffMs(c) \div 86400000
          /\ NotInFuture(c) =>
               /\ age >= 0
               /\ age = TowardZeroDays(c)
               /\ FitsInt(c) => age = TowardZero(DiffMs(c))
          /\ (Alone(i) /\ HasEntry(i) /\ Message(i).num # <<>>)
               => ReadsAs(Message(i).num, age)

\* C15 witness: a draft created 2 days and 23 hours before now has age 2 and
\* no reminder
TwoDaysAnd23Hours ==
    /\ RemindersReturned
    /\ \E i \in AloneWith("draft") :
         /\ now.day - contracts[i].createdAt.day = 3
         /\ now.ms = 0
         /\ contracts[i].createdAt.ms = 60 * 60 * 1000
         /\ daysSinceCreated(now, contracts[i].createdAt) = 2
         /\ ~HasEntry(i)

----------------------------------------------------------------------------
\* C14: a call of generateContractReminders or of getStatusSuggestions leaves
\* its inputs as they were (the contract list, and so the id, the status and
\* the createdAt of every contract in it, the status and the red flag count)
\* and writes nothing to the store.
CallsLeaveInputsAndStoreUnchanged ==
    [][ (CallGenerateContractReminders \/ CallGetStatusSuggestions) =>
          /\ contracts' = contracts
          /\ Len(contracts') = Len(contracts)
          /\ \A i \in Positions :
               /\ contracts'[i].id = contracts[i].id
               /\ contracts'[i].status = contracts[i].status
               /\ contracts'[i].createdAt = contracts[i].createdAt
          /\ status' = status
          /\ redFlagsCount' = redFlagsCount
          /\ db' = db /\ writes' = writes ]_vars

\* both functions have returned for a list of two different contracts that
\* both got a reminder
BothCalledOnTwoContracts ==
    /\ returned = {"generateContractReminders", "getStatusSuggestions"}
    /\ Len(contracts) = 2
    /\ contracts[1] # contracts[2]
    /\ DOMAIN reminders = {"a", "b"}
    /\ suggestions # <<>>

----------------------------------------------------------------------------
\* the user's contracts as a query of the store returns them
StoredContracts ==
    [i \in DOMAIN QueryDocs(db) |-> WithId(QueryDocs(db)[i], db[QueryDocs(db)[i]])]

\* C17: whenever the dashboard computes, from the user's contracts it has
\* queried, the reminders it will show as banners, the map it computes is
\* generateContractReminders of the same contracts at the same 'now'.
DashboardShowsTheRuleTable ==
    [][ \A k \in DOMAIN queries :
          RemindersQueryRuns(k) =>
            queries'[k].answer = generateContractReminders(StoredContracts, now) ]_vars

----------------------------------------------------------------------------
\* the age of the stored contract id, in days since the createdAt the store
\* holds for it
AgeSinceCreation(id) == AgeOf(WithId(id, db[id]))

\* the contract c of a page, with the createdAt the store holds for it
AsCreated(c) == [c EXCEPT !.createdAt = db[c.id].createdAt]

\* C18: status updates do not touch the age. Each time the dashboard
\* recomputes its reminders, every number it computes, and every number it
\* shows, is the contract's age in days since createdAt, and a contract of an age-reminded status that is
\* older than 30 days since createdAt has its reminder however recently its
\* status was updated; and each time an update has been applied, the
\* reminder rule table, given the page's updated contracts, has an entry
\* exactly for those whose new status and age since createdAt meet a rule,
\* with that age as its number.
AgeIsStillMeasuredFromCreatedAt ==
    [][ /\ \A k \in DOMAIN queries :
             RemindersQueryRuns(k) =>
               \A id \in Range(QueryDocs(db)) :
                  /\ (id \in DOMAIN queries'[k].answer /\ queries'[k].answer[id].num # <<>>) =>
                       ReadsAs(queries'[k].answer[id].num, AgeSinceCreation(id))
                  /\ (db[id].status \in AgeTemplateStatuses /\ AgeSinceCreation(id) > 30) =>
                       /\ id \in DOMAIN queries'[k].answer
                       /\ ReadsAs(queries'[k].answer[id].num, AgeSinceCreation(id))
        /\ \A id \in DOMAIN aiReminders' :
             aiReminders'[id].num # <<>> =>
               ReadsAs(aiReminders'[id].num, AgeSinceCreation(id))
        /\ (\E w \in writes : UpdateDocResolves(w)) =>
             LET r == generateContractReminders(contracts', now')
             IN  \A i \in DOMAIN contracts' :
                   /\ contracts'[i].id \in DOMAIN r <=> RuleApplies(AsCreated(contracts'[i]))
                   /\ (contracts'[i].id \in DOMAIN r /\ r[contracts'[i].id].num # <<>>) =>
                        ReadsAs(r[contracts'[i].id].num, AgeSinceCreation(contracts'[i].id))
      ]_vars

\* contract "a", 31 days old, was moved to 'in progress' today from the list,
\* and the dashboard, recomputed since, shows its reminder with 31 days
MovedToInProgressAt31Days ==
    /\ db["a"].status = "in progress"
    /\ db["a"].updatedAt = now
    /\ AgeSinceCreation("a") = 31
    /\ contracts # <<>> /\ contracts[1].id = "a"
    /\ contracts[1].status = "in progress" /\ contracts[1].updatedAt = now
    /\ writes = {} /\ queries = <<>>
    /\ "a" \in DOMAIN aiReminders
    /\ ReadsAs(aiReminders["a"].num, 31)

----------------------------------------------------------------------------
\* contract record c2 is c1 except, at most, for status and updatedAt
SameButStatusAndUpdatedAt(c1, c2) ==
    [c2 EXCEPT !.status = c1.status, !.updatedAt = c1.updatedAt] = c1

\* C19: no step of the pages changes the createdAt, or any field other than
\* status and updatedAt, of a contract: not in the store, where a change is
\* the status and updatedAt of one pending update written to its one
\* contract, not in the list page's contracts, where the rows keep their
\* number, order and ids, and not in the contract of the detail page once it
\* is loaded.
OnlyStatusAndUpdatedAtAreWritten ==
    [][ /\ DOMAIN db' = DOMAIN db
        /\ \A id \in DOMAIN db :
             /\ db'[id].createdAt = db[id].createdAt
             /\ SameButStatusAndUpdatedAt(db[id], db'[id])
        /\ db' # db =>
             \E w \in writes :
                db' = [db EXCEPT ![w.id] = [status |-> w.status, updatedAt |-> w.updatedAt,
                                            createdAt |-> db[w.id].createdAt,
                                            fileName |-> db[w.id].fileName,
                                            userId |-> db[w.id].userId]]
        /\ ~loadingContracts =>
             /\ Len(contracts') = Len(contracts)
             /\ \A i \in DOMAIN contracts :
                  /\ contracts'[i].createdAt = contracts[i].createdAt
                  /\ SameButStatusAndUpdatedAt(contracts[i], contracts'[i])
             /\ \A w \in writes :
                  UpdateDocResolves(w) =>
                    \A i \in DOMAIN contracts :
                       (w.page # "list" \/ contracts[i].id # w.id) =>
                          contracts'[i] = contracts[i]
        /\ pageContract # NoContract =>
             /\ pageContract'.createdAt = pageContract.createdAt
             /\ SameButStatusAndUpdatedAt(pageContract, pageContract')
      ]_vars

\* contract "a" was updated from the list and from the detail page, and it
\* keeps its createdAt of 31 days ago in the store and on both pages
UpdatedFromBothPages ==
    /\ updates = 2 /\ writes = {}
    /\ tabs = {"list", "detail"}
    /\ db["a"].updatedAt = now /\ db["a"].createdAt = [day |-> NowDay - 31, ms |-> 0]
    /\ pageContract.id = "a" /\ pageContract.updatedAt = now
    /\ pageContract.createdAt = db["a"].createdAt
    /\ Len(contracts) = 1
    /\ contracts[1].updatedAt = now /\ contracts[1].createdAt = db["a"].createdAt

----------------------------------------------------------------------------
\* C20: no step moves the stored status of a contract to a status earlier in
\* the lifecycle order draft, negotiating, signed in, in progress, completed.
StatusNeverMovesBackward ==
    [][ \A id \in DOMAIN db : indexOf(db'[id].status) >= indexOf(db[id].status) ]_vars

\* C20, as the pages behave: the stored status of a contract changes only to
\* the status of an update requested from a select or a quick-action button
\* and still pending, and that status is one of the five of the lifecycle,
\* earlier or later than the one it replaces; the same holds for the status
\* the list and the detail page show.
StatusMovesToAnyRequestedLifecycleStatus ==
    [][ /\ \A id \in DOMAIN db :
             db'[id].status # db[id].status =>
               /\ \E w \in writes : w.id = id /\ w.status = db'[id].status
               /\ indexOf(db'[id].status) \in 1..Len(STATUS_ORDER)
        /\ ~loadingContracts =>
             \A i \in DOMAIN contracts :
                contracts'[i].status # contracts[i].status =>
                  /\ \E w \in writes : w.id = contracts[i].id /\ w.status = contracts'[i].status
                  /\ indexOf(contracts'[i].status) \in 1..Len(STATUS_ORDER)
        /\ pageContract # NoContract =>
             (pageContract'.status # pageContract.status =>
                /\ \E w \in writes : w.id = pageContract.id /\ w.status = pageContract'.status
                /\ indexOf(pageContract'.status) \in 1..Len(STATUS_ORDER))
      ]_vars

\* one update, from the detail page, has moved the completed contract "a"
\* back to draft
CompletedMovedBackToDraft ==
    /\ updates = 1 /\ writes = {}
    /\ db["a"].status = "draft" /\ db["a"].updatedAt = now
    /\ pageContract.id = "a" /\ pageContract.status = "draft"
    /\ \E k \in DOMAIN timeline :
         timeline[k].id = "updated" /\ timeline[k].status = "draft"
    /\ ~loadingContracts /\ contracts # <<>> /\ contracts[1].status = "completed"

----------------------------------------------------------------------------
\* the statuses generateContractReminders has a case other than default for:
\* those for which a contract of some age gets a reminder
RemindedStatuses ==
    {s \in Statuses \cup Range(STATUS_OPTIONS) \cup Range(STATUS_ORDER) \cup QuickActionStatuses :
       \E a \in 0..MaxAge :
          generateContractReminders(
            << [id |-> "a", fileName |-> "contract.pdf", status |-> s,
                createdAt |-> [day |-> NowDay - a, ms |-> 0]] >>, Midnight) # NoReminders}

\* the statuses getStatusSuggestions has a case other than default for: those
\* with a list of suggestions that is not empty
SuggestedStatuses ==
    {s \in Statuses \cup Range(STATUS_OPTIONS) \cup Range(STATUS_ORDER) \cup QuickActionStatuses :
       getStatusSuggestions(s, 0) # <<>>}

\* the statuses of the contracts in the store, on the two pages and in the
\* updates under way
StatusesInUse ==
    {db[id].status : id \in DOMAIN db}
      \cup {contracts[i].status : i \in DOMAIN contracts}
      \cup {w.status : w \in writes}
      \cup (IF pageContract # NoContract THEN {pageContract.status} ELSE {})

\* C21: every status a select or a quick-action button can assign, and so
\* every status a contract has in the store or on a page after any updates,
\* is one that both generateContractReminders and getStatusSuggestions handle
\* with a case of its own.
AssignableStatusesAreHandled ==
    /\ Range(STATUS_OPTIONS) \cup Range(STATUS_ORDER) \cup QuickActionStatuses
         \subseteq RemindedStatuses \cap SuggestedStatuses
    /\ StatusesInUse \subseteq RemindedStatuses \cap SuggestedStatuses

\* two updates have been applied and contract "a" is stored as 'signed in',
\* the literal with a space
StoredAsSignedInAfterTwoUpdates ==
    /\ updates = 2 /\ writes = {}
    /\ db["a"].status = "signed in" /\ db["a"].updatedAt = now

----------------------------------------------------------------------------
\* the message is the one of the higher threshold of 'signed in' or of
\* 'in progress'
HigherTier(m) ==
    m.post \in {" days. Time to start execution!",
                " days. Check if milestones are being met."}

\* C22: for a contract whose status stays the same, from one call to a later
\* one: a draft, negotiating, 'signed in' or 'in progress' contract that had
\* a reminder still has one, and if it had the message of the higher
\* threshold it still has that one; a completed contract that had no
\* reminder still has none.
RemindersAreMonotoneInTime ==
    [][ (RemindersReturned /\ CallGenerateContractReminders) =>
          \A i \in Positions :
             /\ (contracts[i].status \in AgeTemplateStatuses
                   /\ contracts[i].id \in DOMAIN reminders) =>
                  /\ contracts[i].id \in DOMAIN reminders'
                  /\ HigherTier(reminders[contracts[i].id]) =>
                       HigherTier(reminders'[contracts[i].id])
             /\ (contracts[i].status = "completed"
                   /\ contracts[i].id \notin DOMAIN reminders) =>
                  contracts[i].id \notin DOMAIN reminders' ]_vars

\* the call for a 'signed in' contract that has reached the age of 14 days
\* has returned the start-execution message
KickoffHasBecomeStartExecution ==
    /\ RemindersReturned
    /\ contracts[1].status = "signed in"
    /\ AgeOf(contracts[1]) = 14
    /\ "a" \in DOMAIN reminders
    /\ HigherTier(reminders["a"])
    /\ ReadsAs(reminders["a"].num, 14)

----------------------------------------------------------------------------
\* C23: a contract whose createdAt is later than now has no entry when its
\* status is draft, negotiating, 'signed in' or 'in progress', and has the
\* congratulatory entry when its status is completed.
CreatedInTheFuture ==
    RemindersReturned =>
      \A i \in Positions :
         (Alone(i) /\ ~NotInFuture(contracts[i])) =>
            /\ AgeOf(contracts[i]) < 0
            /\ contracts[i].status \in AgeTemplateStatuses => ~HasEntry(i)
            /\ contracts[i].status = "completed" =>
                 /\ HasEntry(i)
                 /\ Message(i).pre = CongratulatoryText
                 /\ Message(i).num = <<>>

\* a completed contract created one hour after now, of age -1, has its entry
CompletedCreatedAnHourAhead ==
    /\ RemindersReturned
    /\ Len(contracts) = 1
    /\ contracts[1].status = "completed"
    /\ now = Midnight
    /\ contracts[1].createdAt = [day |-> NowDay, ms |-> 60 * 60 * 1000]
    /\ AgeOf(contracts[1]) = -1
    /\ HasEntry(1)

----------------------------------------------------------------------------
\* C24: the detail page holds a contract only if the document of its route id
\* is stored and its userId is the uid of the signed-in user; and when the
\* document read by loadContract is missing or is another user's, the
\* contract state stays null and the page has navigated to /contracts.
ContractIsSetOnlyForItsOwner ==
    [][ /\ pageContract' # NoContract =>
             /\ user' # NoUser
             /\ route \in DOMAIN db'
             /\ db'[route].userId = user'
             /\ pageContract'.id = route
             /\ pageContract'.userId = user'
        /\ (LoadContractResolves
              /\ (IF route \in DOMAIN db THEN db[route].userId # user ELSE TRUE)) =>
             /\ pageContract' = NoContract
             /\ timeline' = <<>>
             /\ pathname' = ContractsPath ]_vars

\* the detail page of contract "b", which is another user's, has loaded: no
\* contract is set and the page has navigated to /contracts
OtherUsersContractIsRefused ==
    /\ route = "b" /\ "b" \in DOMAIN db /\ db["b"].userId = "u2"
    /\ user = Uid
    /\ ~loadingContract /\ pending = {}
    /\ pageContract = NoContract
    /\ pathname = ContractsPath
    /\ logged = {}

----------------------------------------------------------------------------
\* C25: once useAuth has stopped loading, the detail page eventually shows
\* something other than 'Loading...': the contract or 'Contract Not Found'
\* with a signed-in user, the sign-in prompt with none.
DetailPageLeavesLoading ==
    ("detail" \in tabs /\ ~authLoading) ~>
       (IF user # NoUser
          THEN DetailScreen \in {"contract", "Contract Not Found"}
          ELSE DetailScreen = "Please sign in to view contract details.")

----------------------------------------------------------------------------
\* C26: when the updateDoc of an update rejects, the store and the local
\* state are as before: the contract and the timeline of the detail page,
\* the contracts of the list, the reminders shown, and no reminder query is
\* started.
FailedWriteChangesNothing ==
    [][ \A w \in writes :
          UpdateDocFails(w) =>
            /\ db' = db
            /\ pageContract' = pageContract
            /\ timeline' = timeline
            /\ contracts' = contracts
            /\ aiReminders' = aiReminders
            /\ queries' = queries ]_vars

\* two updates of the completed contract "a", one from each page, have both
\* failed: the store and both pages still show it completed, never updated
BothUpdatesFailed ==
    /\ tabs = {"list", "detail"}
    /\ updates = 2 /\ writes = {} /\ queries = <<>>
    /\ "Error updating contract status:" \in logged
    /\ db["a"].status = "completed" /\ db["a"].updatedAt = Unset
    /\ pageContract = WithId("a", db["a"])
    /\ contracts = <<WithId("a", db["a"])>>

----------------------------------------------------------------------------
\* C27: on the contracts list, open alone, once no load, no write and no
\* reminder query is under way and none has failed, the reminders shown are
\* the ones computed from the stored status of every contract.
RemindersAreCurrentWhenQuiet ==
    (/\ tabs = {"list"}
     /\ ~authLoading /\ user # NoUser
     /\ pending = {} /\ writes = {} /\ queries = <<>>
     /\ logged = {})
      => aiReminders = aiRemindersOf(db, now)

----------------------------------------------------------------------------
\* the operations under way that set the loading flag: all but fetchUsers
InFlight == {k \in DOMAIN ops : ops[k].kind # "fetchUsers"}

\* C28: loading is true whenever a fetchDocuments, fetchAccessRequests,
\* fetchPendingRequests, requestAccess or makeDecision is under way; it is
\* false only when none is.
LoadingWhileAnyInFlight ==
    InFlight # {} => loading

----------------------------------------------------------------------------
\* the positions of the timeline holding an event of the given id
EventsWithId(id) == {i \in DOMAIN timeline : timeline[i].id = id}

\* C29: the timeline generateTimeline sets is in order of non-decreasing
\* timestamp; it holds exactly one 'created' event; an 'updated' event if and
\* only if updatedAt is set and differs from createdAt; exactly one milestone
\* for each lifecycle status up to the current one, the current one's reading
\* "Currently in ... phase" and the earlier ones' "... completed"; and no
\* milestone for a later status.
TimelineIsOrderedAndComplete ==
    timeline # <<>> =>
      LET c == pageContract
          current == CHOOSE k \in DOMAIN STATUS_ORDER : STATUS_ORDER[k] = c.status
          hasUpdate == c.updatedAt # Unset /\ c.updatedAt # c.createdAt
      IN  /\ \A i, j \in DOMAIN timeline :
                i < j =>
                  \/ timeline[i].timestamp.day < timeline[j].timestamp.day
                  \/ /\ timeline[i].timestamp.day = timeline[j].timestamp.day
                     /\ timeline[i].timestamp.ms <= timeline[j].timestamp.ms
          /\ Cardinality(EventsWithId("created")) = 1
          /\ Cardinality(EventsWithId("updated")) = (IF hasUpdate THEN 1 ELSE 0)
          /\ \A k \in DOMAIN STATUS_ORDER :
                LET at == EventsWithId("milestone-" \o STATUS_ORDER[k])
                IN  /\ Cardinality(at) = (IF k <= current THEN 1 ELSE 0)
                    /\ \A i \in at :
                          /\ timeline[i].status = STATUS_ORDER[k]
                          /\ timeline[i].description =
                               (IF k = current
                                  THEN "Currently in " \o Label(STATUS_ORDER[k]) \o " phase"
                                  ELSE Label(STATUS_ORDER[k]) \o " completed")
          /\ Len(timeline) = 1 + (IF hasUpdate THEN 1 ELSE 0) + current

\* a contract signed a day after its upload: the timeline ends with the
\* 'updated' event and the current milestone, after two completed ones
SignedInTheDayAfterUpload ==
    /\ pageContract.status = "signed in"
    /\ pageContract.createdAt.day < pageContract.updatedAt.day
    /\ Len(timeline) = 5
    /\ timeline[4].id = "updated"
    /\ timeline[5].description = "Currently in Signed In phase"

----------------------------------------------------------------------------
\* C30: for a contract created at or before now, the 'Days Active' figure of
\* the detail page is the age in days generateContractReminders computes for
\* that contract at the same now.
DaysActiveIsTheReminderAge ==
    (/\ timeline # <<>>
     /\ \/ pageContract.createdAt.day < now.day
        \/ /\ pageContract.createdAt.day = now.day
           /\ pageContract.createdAt.ms <= now.ms)
      => DaysActive(now, pageContract) = daysSinceCreated(now, pageContract.createdAt)

====
